---- MODULE Spec2Model ----
(***************************************************************************)
(* Model of the NATS / JetStream client of yogenyslav/pkg                  *)
(* (package nats): the Nats struct, its router, the publish operations,    *)
(* the envelope, the stream declaration and the consume loop; and of the   *)
(* Kafka consumer's Subscribe and the Redis cache's getters.               *)
(*                                                                         *)
(* The specifications share the variables; all but SpecEnvelope, which     *)
(* draws the inputs of a publish operation, share the initial state:       *)
(*   Spec            the client object, its router and the dispatch        *)
(*   SpecPublish     PublishSync / PublishAsync against the broker's       *)
(*                   verdict and the caller's context                      *)
(*   SpecStream      one caller of Stream() and the broker's stream table  *)
(*   SpecStreamRace  several callers of Stream() for the same stream name  *)
(*   SpecRegistry    every operation of the client, around the registry    *)
(*                   of active consumers                                   *)
(*   SpecConsume     the consume loop of one consumer and its handler      *)
(*   SpecConsumeStop the consume loop under cancellation and Close()       *)
(*   SpecRouterV     the dispatch with the router of router.go             *)
(*   SpecEnvelope    the envelope of a publish operation, encoded and      *)
(*                   decoded                                               *)
(*   SpecAddRace     AddConsumer called by several goroutines at once      *)
(*   SpecNew         New with its options, and the client it returns       *)
(*   SpecKafka       Subscribe of the Kafka consumer and its goroutines    *)
(*   SpecCache       the Redis cache's SetPrimitive, getters and Del       *)
(***************************************************************************)
EXTENDS Integers, Sequences, FiniteSets, TLC

(***************************************************************************)
(* Bounds and input domains                                                *)
(***************************************************************************)
MaxConsumers == 2
MaxPublishes == 2
MaxCfgSubjects == 2

RouteSubjects == {"orders.created", "orders.paid"}
Handlers == {"h1", "h2"}
NoHandler == "none"
Msgs == {"m1", "m2"}
ConsumerIds == {"c1", "c2"}
Dispatchers == {1, 2}

Subjects == {"a", "b", "c"}
StreamNames == {"X", "Y"}
Declarers == {1, 2}

Nil == 0

(***************************************************************************)
(* Go error values.  text is the message (a list of fragments), is the set *)
(* of sentinel errors errors.Is reports for the value, i.e. its own        *)
(* identity and everything reachable through Unwrap.                       *)
(***************************************************************************)
NilErr == [text |-> <<>>, is |-> {}]

ErrJetStreamNotEnabled ==
    [text |-> <<"jetstream is not enabled for this client, use JetStream() method to turn it on">>,
     is |-> {"ErrJetStreamNotEnabled"}]

ErrAckTimeout ==
    [text |-> <<"waiting for ack exceeded timeout">>, is |-> {"ErrAckTimeout"}]

\* fmt.Errorf("<desc>: %v", err): the text of err is copied, its identity is not.
ErrorfV(desc, err) == [text |-> <<desc>> \o err.text, is |-> {}]

\* fmt.Errorf("<desc>: %w", err): the new error unwraps to err.
ErrorfW(desc, err) == [text |-> <<desc>> \o err.text, is |-> err.is]

\* Errors produced outside the package.
ErrJetStreamNew == [text |-> <<"nats: invalid connection">>, is |-> {"nats.ErrInvalidConnection"}]
ErrHandlerFailed == [text |-> <<"handler failed">>, is |-> {"ErrHandlerFailed"}]
HandlerResults == {NilErr, ErrHandlerFailed}

VARIABLES
    stream,      \* Nats.stream: Nil or the identity of the jetstream context
    router,      \* Nats.router: Nil or the identity of the router object
    routes,      \* the router's sync.Map: subject -> handler (NoHandler = no entry)
    consumers,   \* Nats.consumers
    created,     \* number of jetstream contexts created by jetstream.New
    registered,  \* history: subject -> handler of the latest returning Handle call
    added,       \* history: the arguments of the returning AddConsumer calls, in order
    replaced,    \* history: the subjects whose handler a later Handle call changed
    last,        \* the operation that returned (or panicked) last, with its result
    disp,        \* the processStreamMessage call of each dispatching goroutine
    pub,         \* the publish call in progress
    verdict,     \* the broker's answer to the publish in flight
    ctx,         \* the context given to the publish call
    encoded,     \* number of envelopes marshalled
    sent,        \* number of messages handed to the broker
    brokerExists,   \* broker: names of the existing streams
    brokerSubjects, \* broker: stream name -> subject set of its configuration
    decl,        \* the Stream() call of each declaring caller
    lastReq,     \* the latest CreateOrUpdateStream request the broker received, with
                 \* the elements of its caller's cfg.Subjects and the subjects its
                 \* caller's listing showed for the stream of that name
    closed,      \* Close() was called: the connection is draining or closed
    activeRet,   \* the slice the latest ActiveConsumers call returned
    brokerConsumers, \* broker: names of the consumers created or updated
    loop,        \* the consume loop cons.Consume started, and the context of its handlers
    stored,      \* broker: the messages of the stream, a message's id is its index
    pendingMsgs, \* broker: ids of the messages waiting for delivery, in delivery order
    deliveries,  \* history: one record for each message handed to the message handler
    cur,         \* the message handler's position in the delivery it is working on
    sink,        \* the errors the error handler given to ProcessStream was called with
    env,         \* the envelope a publish operation builds, marshals and a receiver decodes
    adders,      \* the AddConsumer call of each goroutine calling it without a lock
    kafka,       \* the Kafka consumer: a Subscribe call, its channels and its goroutines
    cache        \* the Redis cache: the keys stored and the latest call with its results

clientVars == <<stream, router, routes, consumers, created>>
histVars == <<registered, added, replaced>>
pubVars == <<pub, verdict, ctx, encoded, sent>>
brokerVars == <<brokerExists, brokerSubjects, lastReq>>
loopVars == <<closed, activeRet, brokerConsumers, loop, stored, pendingMsgs, deliveries, cur, sink>>
extVars == <<env, adders, kafka, cache>>
vars == <<stream, router, routes, consumers, created, registered, added, replaced, last, disp,
          pub, verdict, ctx, encoded, sent, brokerExists, brokerSubjects, decl, lastReq,
          closed, activeRet, brokerConsumers, loop, stored, pendingMsgs, deliveries, cur, sink,
          env, adders, kafka, cache>>

NoRoutes == [s \in RouteSubjects |-> NoHandler]

Returned(op, c, err, panicked) == [op |-> op, ctx |-> c, err |-> err, panic |-> panicked]

IdleDispatch ==
    [pc |-> "idle", subj |-> "orders.created", msg |-> "m1", h |-> NoHandler,
     expect |-> NoHandler, calls |-> <<>>, herr |-> NilErr, ret |-> NilErr,
     panic |-> FALSE]

IdlePublish ==
    [pc |-> "idle", kind |-> "none", withAck |-> FALSE, waited |-> FALSE, cause |-> "none",
     verdictAtReturn |-> "none", ret |-> NilErr]

IdleDecl ==
    [pc |-> "idle", name |-> "X", cfgSubjects |-> <<>>, seen |-> {}, subjectsSet |-> {},
     listErr |-> NilErr, ret |-> NilErr]

NoRequest == [issued |-> FALSE, name |-> "X", subjects |-> <<>>, cfgSubjects |-> {}, seen |-> {}]

\* No Consume call yet; the context given to ProcessStream and ConsumerMessageHandler is live.
IdleLoop == [state |-> "idle", ctx |-> "live"]

\* The message handler is not running.
IdleHandler == [pc |-> "idle", i |-> 1]

\* Kafka: the most partitions a topic has, and the most messages the caller of
\* Subscribe takes from the out channel.
MaxPartitions == 2
MaxReceived == 2
Partitions == 1..MaxPartitions

\* Kafka: no Subscribe call yet.  worker[p] is the consume goroutine of partition p,
\* received the partitions of the messages the caller took from out, errs the
\* partitions whose close error the caller took from errCh.
IdleKafka ==
    [pc |-> "idle", n |-> 0, i |-> 1, worker |-> [p \in Partitions |-> "none"],
     outClosed |-> FALSE, errClosed |-> FALSE, ctx |-> "live", received |-> <<>>,
     errs |-> {}, crashed |-> FALSE, ret |-> NilErr]

\* Redis: the keys and the values the model stores.
CacheKeys == {"k1", "k2"}
CacheValues == {"42", "true", "abc"}
Missing == "(nil)"

\* Redis: nothing stored, no call made.
IdleCache ==
    [store |-> [k \in CacheKeys |-> Missing], snapshot |-> "redis.go", op |-> "none",
     key |-> "k1", had |-> Missing, cmdErr |-> NilErr, parsed |-> TRUE, ret |-> NilErr]

\* The goroutines that call AddConsumer at the same time.
Adders == {1, 2}

\* No AddConsumer call in progress: nothing read from n.consumers.
IdleAdder == [pc |-> "idle", cons |-> "c1", seen |-> <<>>]

\* A Message with every field at its zero value.
NoMessage == [ts |-> [seconds |-> 0, nanos |-> 0], id |-> "", trace_id |-> "", payload |-> <<>>]

\* ctx.Value(MessageIDKey) is nil.
NoCtxValue == [kind |-> "nil", str |-> ""]

\* No publish operation has built an envelope.
IdleEnv ==
    [pc |-> "idle", op |-> "none", hdr |-> "absent", ctxv |-> NoCtxValue, payload |-> <<>>,
     now |-> 0, msg |-> NoMessage, data |-> <<>>, out |-> NoMessage, err |-> NilErr]

InitClient ==
    /\ stream = Nil
    /\ router = Nil
    /\ routes = NoRoutes
    /\ consumers = <<>>
    /\ created = 0
    /\ registered = NoRoutes
    /\ added = <<>>
    /\ replaced = {}
    /\ last = Returned("New", Nil, NilErr, FALSE)
    /\ disp = [d \in Dispatchers |-> IdleDispatch]
    /\ pub = IdlePublish
    /\ verdict = "none"
    /\ ctx = "live"
    /\ encoded = 0
    /\ sent = 0
    /\ brokerExists = {"Y"}
    /\ brokerSubjects = [n \in StreamNames |-> IF n = "Y" THEN {"c"} ELSE {}]
    /\ decl = [t \in Declarers |-> IdleDecl]
    /\ lastReq = NoRequest
    /\ closed = FALSE
    /\ activeRet = <<>>
    /\ brokerConsumers = {}
    /\ loop = IdleLoop
    /\ stored = <<>>
    /\ pendingMsgs = <<>>
    /\ deliveries = <<>>
    /\ cur = IdleHandler
    /\ sink = <<>>

Init ==
    /\ InitClient
    /\ env = IdleEnv
    /\ adders = [a \in Adders |-> IdleAdder]
    /\ kafka = IdleKafka
    /\ cache = IdleCache

(***************************************************************************)
(* Nats.JetStream                                                          *)
(***************************************************************************)
\* What JetStream leaves in (stream, router, routes, created) and returns, given
\* whether jetstream.New succeeds.
\* Mutant: no early return for a client that is already enabled.
JetStreamResultReinit(newOk) ==
    IF ~newOk
    THEN [stream |-> stream, router |-> router, routes |-> routes, created |-> created,
          ret |-> Nil, err |-> ErrorfV("connect to jetstream", ErrJetStreamNew)]
    ELSE [stream |-> created + 1, router |-> created + 1, routes |-> NoRoutes,
          created |-> created + 1, ret |-> created + 1, err |-> NilErr]

JetStreamResult(newOk) ==
    IF stream # Nil
    THEN [stream |-> stream, router |-> router, routes |-> routes, created |-> created,
          ret |-> stream, err |-> NilErr]
    ELSE IF ~newOk
    THEN [stream |-> Nil, router |-> router, routes |-> routes, created |-> created,
          ret |-> Nil, err |-> ErrorfV("connect to jetstream", ErrJetStreamNew)]
    ELSE [stream |-> created + 1, router |-> created + 1, routes |-> NoRoutes,
          created |-> created + 1, ret |-> created + 1, err |-> NilErr]

JetStream ==
    \E newOk \in BOOLEAN :
        LET r == JetStreamResult(newOk) IN
        /\ stream' = r.stream
        /\ router' = r.router
        /\ routes' = r.routes
        /\ created' = r.created
        /\ last' = Returned("JetStream", r.ret, r.err, FALSE)
        /\ UNCHANGED <<extVars, consumers, histVars, disp, pubVars, brokerVars, decl, loopVars>>

(***************************************************************************)
(* Nats.Handle, Nats.AddConsumer                                           *)
(***************************************************************************)
\* Mutant: LoadOrStore, the first registration wins.
StoreIfAbsent(m, subj, h) == IF m[subj] = NoHandler THEN [m EXCEPT ![subj] = h] ELSE m

\* Mutant: a plain map written without a lock, the entry is seen missing while
\* it is rewritten.
StoreTorn(m, subj, h) == [m EXCEPT ![subj] = IF m[subj] = NoHandler THEN h ELSE NoHandler]

\* sync.Map.Store(subj, h)
Store(m, subj, h) == [m EXCEPT ![subj] = h]

Handle(subj, h) ==
    IF stream = Nil
    THEN /\ last' = Returned("Handle", Nil, ErrJetStreamNotEnabled, TRUE)
         /\ UNCHANGED <<extVars, clientVars, histVars, disp, pubVars, brokerVars, decl, loopVars>>
    ELSE /\ routes' = Store(routes, subj, h)
         /\ registered' = [registered EXCEPT ![subj] = h]
         /\ replaced' = IF registered[subj] \notin {NoHandler, h}
                        THEN replaced \cup {subj} ELSE replaced
         /\ last' = Returned("Handle", Nil, NilErr, FALSE)
         /\ UNCHANGED <<extVars, stream, router, consumers, created, added, disp, pubVars,
                        brokerVars, decl, loopVars>>

\* Mutant: the new consumer is put in front of the list.
AddConsumerInFront(cons) ==
    IF stream = Nil
    THEN /\ last' = Returned("AddConsumer", Nil, ErrJetStreamNotEnabled, TRUE)
         /\ UNCHANGED <<extVars, clientVars, histVars, disp, pubVars, brokerVars, decl, loopVars>>
    ELSE /\ Len(consumers) < MaxConsumers
         /\ consumers' = <<cons>> \o consumers
         /\ added' = Append(added, cons)
         /\ last' = Returned("AddConsumer", Nil, NilErr, FALSE)
         /\ UNCHANGED <<extVars, stream, router, routes, created, registered, replaced, disp, pubVars,
                        brokerVars, decl, loopVars>>

AddConsumer(cons) ==
    IF stream = Nil
    THEN /\ last' = Returned("AddConsumer", Nil, ErrJetStreamNotEnabled, TRUE)
         /\ UNCHANGED <<extVars, clientVars, histVars, disp, pubVars, brokerVars, decl, loopVars>>
    ELSE /\ Len(consumers) < MaxConsumers
         /\ consumers' = Append(consumers, cons)
         /\ added' = Append(added, cons)
         /\ last' = Returned("AddConsumer", Nil, NilErr, FALSE)
         /\ UNCHANGED <<extVars, stream, router, routes, created, registered, replaced, disp, pubVars,
                        brokerVars, decl, loopVars>>

(***************************************************************************)
(* router.processStreamMessage, in its two steps: the lookup of the        *)
(* handler in the sync.Map, and the call of the handler found.  Handle     *)
(* calls of other goroutines may come between the two.                     *)
(***************************************************************************)
\* Mutant: the lookup ignores the subject of the message.
LoadAnySubject(m, subj) ==
    IF \E s \in RouteSubjects : m[s] # NoHandler
    THEN m[CHOOSE s \in RouteSubjects : m[s] # NoHandler]
    ELSE NoHandler

\* r.handlers.Load(subj)
Load(m, subj) == m[subj]

processStreamMessageLoad(d, subj, m) ==
    /\ disp[d].pc \in {"idle", "done"}
    /\ IF router = Nil
       THEN \* nil receiver: r.handlers dereferences a nil pointer
            disp' = [disp EXCEPT ![d] =
                        [IdleDispatch EXCEPT !.pc = "done", !.subj = subj, !.msg = m,
                                             !.panic = TRUE]]
       ELSE LET h == Load(routes, subj) IN
            disp' = [disp EXCEPT ![d] =
                        [IdleDispatch EXCEPT
                            !.pc = IF h = NoHandler THEN "done" ELSE "loaded",
                            !.subj = subj, !.msg = m, !.h = h,
                            !.expect = registered[subj]]]
    /\ UNCHANGED <<extVars, clientVars, histVars, last, pubVars, brokerVars, decl, loopVars>>

\* Mutant: the handler is called again to build the error.
CallHandlerTwice(call, herr) ==
    [call EXCEPT
        !.pc = "done",
        !.calls = call.calls \o <<[h |-> call.h, msg |-> call.msg],
                                  [h |-> call.h, msg |-> call.msg]>>,
        !.herr = herr,
        !.ret = IF herr = NilErr THEN NilErr
                ELSE ErrorfW("handler returned an error", herr)]

\* handler(ctx, m) and the wrapping of its error
CallHandler(call, herr) ==
    [call EXCEPT
        !.pc = "done",
        !.calls = Append(call.calls, [h |-> call.h, msg |-> call.msg]),
        !.herr = herr,
        !.ret = IF herr = NilErr THEN NilErr
                ELSE ErrorfW("handler returned an error", herr)]

processStreamMessageCall(d) ==
    /\ disp[d].pc = "loaded"
    /\ \E herr \in HandlerResults :
        disp' = [disp EXCEPT ![d] = CallHandler(disp[d], herr)]
    /\ UNCHANGED <<extVars, clientVars, histVars, last, pubVars, brokerVars, decl, loopVars>>

\* handler(ctx, m) and the formatting of its error, in the router of router.go
CallHandlerV(call, herr) ==
    [call EXCEPT
        !.pc = "done",
        !.calls = Append(call.calls, [h |-> call.h, msg |-> call.msg]),
        !.herr = herr,
        !.ret = IF herr = NilErr THEN NilErr
                ELSE ErrorfV("handler returned an error", herr)]

processStreamMessageCallV(d) ==
    /\ disp[d].pc = "loaded"
    /\ \E herr \in HandlerResults :
        disp' = [disp EXCEPT ![d] = CallHandlerV(disp[d], herr)]
    /\ UNCHANGED <<extVars, clientVars, histVars, last, pubVars, brokerVars, decl, loopVars>>

Next ==
    \/ JetStream
    \/ \E subj \in RouteSubjects, h \in Handlers : Handle(subj, h)
    \/ \E cons \in ConsumerIds : AddConsumer(cons)
    \/ \E d \in Dispatchers, subj \in RouteSubjects, m \in Msgs :
            processStreamMessageLoad(d, subj, m)
    \/ \E d \in Dispatchers : processStreamMessageCall(d)

Spec == Init /\ [][Next]_vars

\* The client with the router of router.go, whose processStreamMessage formats the
\* handler's error with %v.
NextRouterV ==
    \/ JetStream
    \/ \E subj \in RouteSubjects, h \in Handlers : Handle(subj, h)
    \/ \E d \in Dispatchers, subj \in RouteSubjects, m \in Msgs :
            processStreamMessageLoad(d, subj, m)
    \/ \E d \in Dispatchers : processStreamMessageCallV(d)

SpecRouterV == Init /\ [][NextRouterV]_vars

(***************************************************************************)
(* Errors of the libraries the publish operations call.                    *)
(***************************************************************************)
\* ctx.Err() of a context that is done
CtxErr(c) ==
    IF c = "cancelled"
    THEN [text |-> <<"context canceled">>, is |-> {"context.Canceled"}]
    ELSE [text |-> <<"context deadline exceeded">>, is |-> {"context.DeadlineExceeded"}]

\* what jetstream returns when the broker answers the publish with an error
BrokerRejections ==
    { [text |-> <<"nats: API error: maximum messages exceeded">>, is |-> {"jetstream.ErrMaxMessages"}],
      [text |-> <<"nats: no response from stream">>, is |-> {"jetstream.ErrNoStreamResponse"}] }

\* what PublishMsgAsync returns when the message cannot be submitted
ErrSubmit == [text |-> <<"nats: connection closed">>, is |-> {"nats.ErrConnectionClosed"}]

CtxStates == {"live", "cancelled", "expired"}

(***************************************************************************)
(* Nats.PublishSync: the call up to n.stream.PublishMsg, which blocks      *)
(* until the broker answers or the context is done, and its return.        *)
(***************************************************************************)
\* Mutant: no check of n.stream before the envelope is built.
PublishSyncCallUnchecked(c0) ==
    /\ pub.pc \in {"idle", "done"}
    /\ encoded < MaxPublishes
    /\ encoded' = encoded + 1
    /\ sent' = sent + 1
    /\ verdict' = "pending"
    /\ ctx' = c0
    /\ pub' = [IdlePublish EXCEPT !.pc = "syncWait", !.kind = "sync"]
    /\ UNCHANGED <<extVars, clientVars, histVars, last, disp, brokerVars, decl, loopVars>>

PublishSyncCall(c0) ==
    /\ pub.pc \in {"idle", "done"}
    /\ IF stream = Nil
       THEN /\ pub' = [IdlePublish EXCEPT !.pc = "done", !.kind = "sync",
                                          !.ret = ErrJetStreamNotEnabled]
            /\ UNCHANGED <<verdict, ctx, encoded, sent>>
       ELSE /\ encoded < MaxPublishes
            /\ encoded' = encoded + 1
            /\ sent' = sent + 1
            /\ verdict' = "pending"
            /\ ctx' = c0
            /\ pub' = [IdlePublish EXCEPT !.pc = "syncWait", !.kind = "sync"]
    /\ UNCHANGED <<extVars, clientVars, histVars, last, disp, brokerVars, decl, loopVars>>

\* Mutant: the error of n.stream.PublishMsg is dropped from the message.
PublishSyncResultOpaque(err) ==
    IF err = NilErr THEN NilErr ELSE [text |-> <<"error publishing to stream">>, is |-> {}]

\* lines 382-395: the error returned for the error of n.stream.PublishMsg
PublishSyncResult(err) ==
    IF err = NilErr THEN NilErr ELSE ErrorfV("error publishing to stream", err)

\* The ways n.stream.PublishMsg can end in the current state.
SyncOutcomes ==
    (IF verdict = "ack" THEN {[cause |-> "ack", err |-> NilErr]} ELSE {})
    \cup (IF verdict = "reject"
          THEN {[cause |-> "reject", err |-> r] : r \in BrokerRejections} ELSE {})
    \cup (IF ctx # "live" THEN {[cause |-> "ctx", err |-> CtxErr(ctx)]} ELSE {})

PublishSyncReturn ==
    /\ pub.pc = "syncWait"
    /\ \E o \in SyncOutcomes :
        pub' = [pub EXCEPT !.pc = "done", !.waited = TRUE, !.cause = o.cause,
                           !.verdictAtReturn = verdict,
                           !.ret = PublishSyncResult(o.err)]
    /\ UNCHANGED <<extVars, clientVars, histVars, last, disp, verdict, ctx, encoded, sent,
                   brokerVars, decl, loopVars>>

(***************************************************************************)
(* Nats.PublishAsync: the call up to the select on the ack future and the  *)
(* context, and the select.                                                *)
(***************************************************************************)
PublishAsyncCall(c0, withAck) ==
    /\ pub.pc \in {"idle", "done"}
    /\ IF stream = Nil
       THEN /\ pub' = [IdlePublish EXCEPT !.pc = "done", !.kind = "async",
                                          !.withAck = withAck,
                                          !.ret = ErrJetStreamNotEnabled]
            /\ UNCHANGED <<verdict, ctx, encoded, sent>>
       ELSE /\ encoded < MaxPublishes
            /\ encoded' = encoded + 1
            /\ ctx' = c0
            /\ \E submitted \in BOOLEAN :
                IF ~submitted
                THEN /\ pub' = [IdlePublish EXCEPT
                                    !.pc = "done", !.kind = "async", !.withAck = withAck,
                                    !.ret = ErrorfV("error async publishing to stream",
                                                    ErrSubmit)]
                     /\ verdict' = "none"
                     /\ UNCHANGED sent
                ELSE /\ sent' = sent + 1
                     /\ verdict' = "pending"
                     /\ pub' = [IdlePublish EXCEPT
                                    !.pc = IF withAck THEN "asyncWait" ELSE "done",
                                    !.kind = "async", !.withAck = withAck]
    /\ UNCHANGED <<extVars, clientVars, histVars, last, disp, brokerVars, decl, loopVars>>

\* Mutant: the context's error is returned like a publish error.
PublishAsyncResultCtxErr(case) ==
    IF case = "ack" THEN NilErr
    ELSE ErrorfV("error async publishing to stream", CtxErr(ctx))

\* lines 441-453: the result of the select, by the case taken
PublishAsyncResult(case) ==
    IF case = "ack" THEN NilErr ELSE ErrAckTimeout

\* The cases of the select that are ready: ackFuture.Ok() and ctx.Done().
\* ackFuture.Err() is not among them.
SelectReady ==
    (IF verdict = "ack" THEN {"ack"} ELSE {})
    \cup (IF ctx # "live" THEN {"ctx"} ELSE {})

PublishAsyncReturn ==
    /\ pub.pc = "asyncWait"
    /\ \E case \in SelectReady :
        pub' = [pub EXCEPT !.pc = "done", !.waited = TRUE, !.cause = case,
                           !.verdictAtReturn = verdict,
                           !.ret = PublishAsyncResult(case)]
    /\ UNCHANGED <<extVars, clientVars, histVars, last, disp, verdict, ctx, encoded, sent,
                   brokerVars, decl, loopVars>>

(***************************************************************************)
(* The environment of a publish in flight: the broker answers, the         *)
(* caller's context is cancelled or its deadline passes.                   *)
(***************************************************************************)
BrokerAck ==
    /\ verdict = "pending"
    /\ verdict' = "ack"
    /\ UNCHANGED <<extVars, clientVars, histVars, last, disp, pub, ctx, encoded, sent,
                   brokerVars, decl, loopVars>>

BrokerReject ==
    /\ verdict = "pending"
    /\ verdict' = "reject"
    /\ UNCHANGED <<extVars, clientVars, histVars, last, disp, pub, ctx, encoded, sent,
                   brokerVars, decl, loopVars>>

CtxDone(c) ==
    /\ pub.pc \in {"syncWait", "asyncWait"}
    /\ ctx = "live"
    /\ ctx' = c
    /\ UNCHANGED <<extVars, clientVars, histVars, last, disp, pub, verdict, encoded, sent,
                   brokerVars, decl, loopVars>>

NextPublish ==
    \/ JetStream
    \/ \E c0 \in CtxStates : PublishSyncCall(c0)
    \/ PublishSyncReturn
    \/ \E c0 \in CtxStates, withAck \in BOOLEAN : PublishAsyncCall(c0, withAck)
    \/ PublishAsyncReturn
    \/ BrokerAck
    \/ BrokerReject
    \/ \E c \in {"cancelled", "expired"} : CtxDone(c)

SpecPublish == Init /\ [][NextPublish]_vars

(***************************************************************************)
(* Nats.Stream, in its two broker round trips: the listing of the existing *)
(* streams (with the merge of the subjects, local to the caller) and the   *)
(* create-or-update.  Other callers' round trips may come between the two. *)
(***************************************************************************)
Range(seq) == {seq[i] : i \in 1..Len(seq)}

CfgSubjectSeqs == UNION {[1..n -> Subjects] : n \in 0..MaxCfgSubjects}

ErrList == [text |-> <<"nats: timeout">>, is |-> {"nats.ErrTimeout"}]
ErrCreate == [text |-> <<"nats: API error: subjects overlap with an existing stream">>,
              is |-> {"jetstream.ErrStreamSubjectOverlap"}]

\* Mutant: the subjects of every listed stream are merged, whatever its name.
SubjectsSetAnyName(name, cfgSubjects) ==
    Range(cfgSubjects) \cup UNION {brokerSubjects[info] : info \in brokerExists}

\* lines 463-475: cfg.Subjects, then the subjects of every listed stream whose name is
\* cfg.Name, put into the set subjectsSet.
SubjectsSet(name, cfgSubjects) ==
    Range(cfgSubjects)
    \cup UNION {brokerSubjects[info] : info \in {i \in brokerExists : i = name}}

\* Mutant: streamList.Err() is not looked at before the create-or-update.
StreamListErrUnchecked(t, name, cfgSubjects) ==
    /\ decl[t].pc \in {"idle", "done"}
    /\ IF stream = Nil
       THEN decl' = [decl EXCEPT ![t] =
                        [IdleDecl EXCEPT !.pc = "done", !.ret = ErrJetStreamNotEnabled]]
       ELSE \E listed \in BOOLEAN :
            IF ~listed
            THEN \* streamList.Err() is not nil
                 decl' = [decl EXCEPT ![t] =
                            [IdleDecl EXCEPT
                                !.pc = "listed", !.name = name, !.cfgSubjects = cfgSubjects,
                                !.listErr = ErrList,
                                !.subjectsSet = Range(cfgSubjects)]]
            ELSE decl' = [decl EXCEPT ![t] =
                            [IdleDecl EXCEPT
                                !.pc = "listed", !.name = name, !.cfgSubjects = cfgSubjects,
                                !.seen = IF name \in brokerExists
                                         THEN brokerSubjects[name] ELSE {},
                                !.subjectsSet = SubjectsSet(name, cfgSubjects)]]
    /\ UNCHANGED <<extVars, clientVars, histVars, last, disp, pubVars, brokerVars, loopVars>>

\* lines 457-484: up to the check of streamList.Err()
StreamList(t, name, cfgSubjects) ==
    /\ decl[t].pc \in {"idle", "done"}
    /\ IF stream = Nil
       THEN decl' = [decl EXCEPT ![t] =
                        [IdleDecl EXCEPT !.pc = "done", !.ret = ErrJetStreamNotEnabled]]
       ELSE \E listed \in BOOLEAN :
            IF ~listed
            THEN \* streamList.Err() is not nil
                 decl' = [decl EXCEPT ![t] =
                            [IdleDecl EXCEPT
                                !.pc = "done", !.listErr = ErrList,
                                !.ret = ErrorfV("list existing streams", ErrList)]]
            ELSE decl' = [decl EXCEPT ![t] =
                            [IdleDecl EXCEPT
                                !.pc = "listed", !.name = name, !.cfgSubjects = cfgSubjects,
                                !.seen = IF name \in brokerExists
                                         THEN brokerSubjects[name] ELSE {},
                                !.subjectsSet = SubjectsSet(name, cfgSubjects)]]
    /\ UNCHANGED <<extVars, clientVars, histVars, last, disp, pubVars, brokerVars, loopVars>>

\* lines 477-480: the slices a range over the map subjectsSet can build.
UniqueSubjects(set) ==
    {seq \in [1..Cardinality(set) -> set] : Range(seq) = set}

StreamCreateOrUpdate(t) ==
    /\ decl[t].pc = "listed"
    /\ \E uniqueSubjects \in UniqueSubjects(decl[t].subjectsSet), accepted \in BOOLEAN :
        /\ decl' = [decl EXCEPT ![t] =
                        [IdleDecl EXCEPT !.pc = "done",
                                         !.ret = IF accepted THEN NilErr
                                                 ELSE ErrorfV("create new stream", ErrCreate)]]
        /\ lastReq' = [issued |-> TRUE, name |-> decl[t].name, subjects |-> uniqueSubjects,
                       cfgSubjects |-> Range(decl[t].cfgSubjects), seen |-> decl[t].seen]
        /\ IF accepted
           THEN /\ brokerExists' = brokerExists \cup {decl[t].name}
                /\ brokerSubjects' = [brokerSubjects EXCEPT ![decl[t].name] =
                                                            Range(uniqueSubjects)]
           ELSE UNCHANGED <<brokerExists, brokerSubjects>>
    /\ UNCHANGED <<extVars, clientVars, histVars, last, disp, pubVars, loopVars>>

\* One caller declares streams of any name, one call after the other.
NextStream ==
    \/ JetStream
    \/ \E name \in StreamNames, cfgSubjects \in CfgSubjectSeqs :
            StreamList(1, name, cfgSubjects)
    \/ StreamCreateOrUpdate(1)

SpecStream == Init /\ [][NextStream]_vars

\* Several callers (services starting up) declare the stream X, each with one subject;
\* their round trips to the broker interleave.
RaceCfgSubjectSeqs == [1..1 -> Subjects]

NextStreamRace ==
    \/ JetStream
    \/ \E t \in Declarers, cfgSubjects \in RaceCfgSubjectSeqs :
            StreamList(t, "X", cfgSubjects)
    \/ \E t \in Declarers : StreamCreateOrUpdate(t)

SpecStreamRace == Init /\ [][NextStreamRace]_vars

(***************************************************************************)
(* Nats.ActiveConsumers, Nats.Close, Nats.Consumer, Nats.ProcessStream     *)
(***************************************************************************)
\* What the libraries return when they fail.
ErrConsumerCreate == [text |-> <<"nats: API error: stream not found">>, is |-> {"jetstream.ErrStreamNotFound"}]
ErrConsumeStart == [text |-> <<"nats: invalid subscription">>, is |-> {"nats.ErrBadSubscription"}]

\* Mutant: the list of a client without a stream context is returned, not refused.
ActiveConsumersUnchecked ==
    /\ activeRet' = consumers
    /\ last' = Returned("ActiveConsumers", Nil, NilErr, FALSE)
    /\ UNCHANGED <<extVars, clientVars, histVars, disp, pubVars, brokerVars, decl, closed,
                   brokerConsumers, loop, stored, pendingMsgs, deliveries, cur, sink>>

ActiveConsumers ==
    /\ IF stream = Nil
       THEN /\ last' = Returned("ActiveConsumers", Nil, ErrJetStreamNotEnabled, TRUE)
            /\ UNCHANGED activeRet
       ELSE /\ activeRet' = consumers
            /\ last' = Returned("ActiveConsumers", Nil, NilErr, FALSE)
    /\ UNCHANGED <<extVars, clientVars, histVars, disp, pubVars, brokerVars, decl, closed,
                   brokerConsumers, loop, stored, pendingMsgs, deliveries, cur, sink>>

\* Mutant: Close also releases the stream context and the router.
CloseReleasesStream ==
    /\ closed' = TRUE
    /\ loop' = IF loop.state = "consuming" THEN [loop EXCEPT !.state = "stopped"] ELSE loop
    /\ stream' = Nil
    /\ router' = Nil
    /\ routes' = NoRoutes
    /\ last' = Returned("Close", Nil, NilErr, FALSE)
    /\ UNCHANGED <<extVars, consumers, created, histVars, disp, pubVars, brokerVars, decl, activeRet,
                   brokerConsumers, stored, pendingMsgs, deliveries, cur, sink>>

\* n.conn.Drain(), its error dropped: the subscriptions of the connection, the one of
\* the consume loop included, deliver no further message.  Nothing of the client
\* object is written.
Close ==
    /\ closed' = TRUE
    /\ loop' = IF loop.state = "consuming" THEN [loop EXCEPT !.state = "stopped"] ELSE loop
    /\ last' = Returned("Close", Nil, NilErr, FALSE)
    /\ UNCHANGED <<extVars, clientVars, histVars, disp, pubVars, brokerVars, decl, activeRet,
                   brokerConsumers, stored, pendingMsgs, deliveries, cur, sink>>

Consumer(name) ==
    /\ IF stream = Nil
       THEN /\ last' = Returned("Consumer", Nil, ErrJetStreamNotEnabled, FALSE)
            /\ UNCHANGED brokerConsumers
       ELSE \E ok \in BOOLEAN :
                IF ok
                THEN /\ brokerConsumers' = brokerConsumers \cup {name}
                     /\ last' = Returned("Consumer", Nil, NilErr, FALSE)
                ELSE /\ last' = Returned("Consumer", Nil,
                                    ErrorfV("create jetstream consumer", ErrConsumerCreate),
                                    FALSE)
                     /\ UNCHANGED brokerConsumers
    /\ UNCHANGED <<extVars, clientVars, histVars, disp, pubVars, brokerVars, decl, closed, activeRet,
                   loop, stored, pendingMsgs, deliveries, cur, sink>>

\* ProcessStream(ctx, cons, handler, errHandler).  cons is a handle Consumer returned.
\* The ctx parameter is not read: the body is the nil check and cons.Consume.
ProcessStream(cons) ==
    /\ cons \in brokerConsumers
    /\ IF stream = Nil
       THEN /\ last' = Returned("ProcessStream", Nil, ErrJetStreamNotEnabled, FALSE)
            /\ UNCHANGED loop
       ELSE /\ loop.state = "idle"
            /\ \E ok \in BOOLEAN :
                IF ok
                THEN /\ loop' = [loop EXCEPT !.state = "consuming"]
                     /\ last' = Returned("ProcessStream", Nil, NilErr, FALSE)
                ELSE /\ last' = Returned("ProcessStream", Nil,
                                    ErrorfV("start consuming messages from stream",
                                            ErrConsumeStart), FALSE)
                     /\ UNCHANGED loop
    /\ UNCHANGED <<extVars, clientVars, histVars, disp, pubVars, brokerVars, decl, closed, activeRet,
                   brokerConsumers, stored, pendingMsgs, deliveries, cur, sink>>

\* Every operation of the client, each with one representative argument where the
\* argument does not bear on the registry of consumers.
NextRegistry ==
    \/ JetStream
    \/ Handle("orders.created", "h1")
    \/ \E cons \in ConsumerIds : AddConsumer(cons)
    \/ ActiveConsumers
    \/ Close
    \/ Consumer("c1")
    \/ ProcessStream("c1")
    \/ PublishSyncCall("live")
    \/ BrokerAck
    \/ PublishSyncReturn
    \/ StreamList(1, "X", <<"a">>)
    \/ StreamCreateOrUpdate(1)

SpecRegistry == Init /\ [][NextRegistry]_vars



(***************************************************************************)
(* The consume loop: cons.Consume hands the messages of the consumer, one  *)
(* at a time, to the function ConsumerMessageHandler returned, and reports *)
(* its own errors to the function given as errHandler.                     *)
(***************************************************************************)
MaxMessages == 2
MaxDeliveries == 3
MaxSinkErrors == 1

\* What the jetstream library hands to errHandler.
ErrNoHeartbeat == [text |-> <<"nats: no heartbeat received">>, is |-> {"jetstream.ErrNoHeartbeat"}]

\* What natsMsg.DoubleAck and proto.Unmarshal return when they fail.
ErrAckNoResponse == [text |-> <<"nats: timeout">>, is |-> {"nats.ErrTimeout"}]
ErrUnmarshal == [text |-> <<"proto: cannot parse invalid wire-format data">>, is |-> {"proto.Error"}]

\* The log lines of the message handler.
LogAckFailed == "double ack the message"
LogDecodeFailed == "unmarshal message"
LogDispatchFailed == "process message from stream"
LogProcessed == "message processed successfuly"

\* Mutant: the message is acknowledged after it was dispatched.
HandlerPlanAckLast == <<"decode", "dispatch", "ack">>

\* The steps of the message handler, in the order of its statements.
HandlerPlan == <<"ack", "decode", "dispatch">>

\* The record of a delivery: what the handler did with the message so far.
\* atBroker is the broker's view of the message, expect the handler registered
\* for the subject when the router looked it up, err the error the handler
\* logged, pulledWhen the state of the context when the message was handed over.
NewDelivery(id) ==
    [id |-> id, ack |-> "none", atBroker |-> "unacked", decoded |-> "none",
     dispatched |-> FALSE, expect |-> NoHandler, calls |-> <<>>, err |-> NilErr,
     logged |-> <<>>, pulledWhen |-> loop.ctx]

CurDelivery == deliveries[Len(deliveries)]
CurMsg == stored[CurDelivery.id]
CurStep == IF cur.pc = "run" /\ cur.i <= Len(HandlerPlan) THEN HandlerPlan[cur.i] ELSE "none"

SetCur(d) == [deliveries EXCEPT ![Len(deliveries)] = d]

\* A message reaches the stream the consumer reads: an envelope this package
\* marshalled (valid) or bytes of another publisher that do not unmarshal.
BrokerStore(subj, payload, valid) ==
    /\ Len(stored) < MaxMessages
    /\ stored' = Append(stored, [subj |-> subj, payload |-> payload, valid |-> valid])
    /\ pendingMsgs' = Append(pendingMsgs, Len(stored) + 1)
    /\ UNCHANGED <<extVars, clientVars, histVars, last, disp, pubVars, brokerVars, decl, closed,
                   activeRet, brokerConsumers, loop, deliveries, cur, sink>>

\* Mutant: the newest waiting message is handed over first.
DeliverNewestFirst ==
    /\ loop.state = "consuming"
    /\ cur.pc = "idle"
    /\ pendingMsgs # <<>>
    /\ Len(deliveries) < MaxDeliveries
    /\ pendingMsgs' = SubSeq(pendingMsgs, 1, Len(pendingMsgs) - 1)
    /\ deliveries' = Append(deliveries, NewDelivery(pendingMsgs[Len(pendingMsgs)]))
    /\ cur' = [pc |-> "run", i |-> 1]
    /\ disp' = [disp EXCEPT ![1] = IdleDispatch]
    /\ UNCHANGED <<extVars, clientVars, histVars, last, pubVars, brokerVars, decl, closed, activeRet,
                   brokerConsumers, loop, stored, sink>>

\* The library calls the message handler with the next message of the consumer,
\* and with one message at a time.
Deliver ==
    /\ loop.state = "consuming"
    /\ cur.pc = "idle"
    /\ pendingMsgs # <<>>
    /\ Len(deliveries) < MaxDeliveries
    /\ pendingMsgs' = Tail(pendingMsgs)
    /\ deliveries' = Append(deliveries, NewDelivery(Head(pendingMsgs)))
    /\ cur' = [pc |-> "run", i |-> 1]
    /\ disp' = [disp EXCEPT ![1] = IdleDispatch]
    /\ UNCHANGED <<extVars, clientVars, histVars, last, pubVars, brokerVars, decl, closed, activeRet,
                   brokerConsumers, loop, stored, sink>>

\* natsMsg.DoubleAck(ctx) sends the ack and waits for the broker's confirmation:
\* "ok", or an error with the ack at the broker ("lost": the confirmation did not
\* arrive) or not ("unsent").  With a context that is done it returns ctx.Err()
\* without sending.
AckOutcomes == IF loop.ctx = "live" THEN {"ok", "lost", "unsent"} ELSE {"unsent"}

\* Mutant: a failed DoubleAck is logged and the handler goes on to decode.
HandlerAckGoesOn ==
    /\ CurStep = "ack"
    /\ \E o \in AckOutcomes :
        IF o = "ok"
        THEN /\ deliveries' = SetCur([CurDelivery EXCEPT !.ack = "ok", !.atBroker = "acked"])
             /\ cur' = [cur EXCEPT !.i = cur.i + 1]
        ELSE /\ deliveries' = SetCur([CurDelivery EXCEPT
                                !.ack = "fail",
                                !.atBroker = IF o = "lost" THEN "acked" ELSE "unacked",
                                !.err = IF loop.ctx = "live" THEN ErrAckNoResponse
                                        ELSE CtxErr(loop.ctx),
                                !.logged = Append(CurDelivery.logged, LogAckFailed)])
             /\ cur' = [cur EXCEPT !.i = cur.i + 1]
    /\ UNCHANGED <<extVars, clientVars, histVars, last, disp, pubVars, brokerVars, decl, closed,
                   activeRet, brokerConsumers, loop, stored, pendingMsgs, sink>>

\* natsMsg.DoubleAck(ctx)
HandlerAck ==
    /\ CurStep = "ack"
    /\ \E o \in AckOutcomes :
        IF o = "ok"
        THEN /\ deliveries' = SetCur([CurDelivery EXCEPT !.ack = "ok", !.atBroker = "acked"])
             /\ cur' = [cur EXCEPT !.i = cur.i + 1]
        ELSE /\ deliveries' = SetCur([CurDelivery EXCEPT
                                !.ack = "fail",
                                !.atBroker = IF o = "lost" THEN "acked" ELSE "unacked",
                                !.err = IF loop.ctx = "live" THEN ErrAckNoResponse
                                        ELSE CtxErr(loop.ctx),
                                !.logged = Append(CurDelivery.logged, LogAckFailed)])
             /\ cur' = [cur EXCEPT !.pc = "ret"]
    /\ UNCHANGED <<extVars, clientVars, histVars, last, disp, pubVars, brokerVars, decl, closed,
                   activeRet, brokerConsumers, loop, stored, pendingMsgs, sink>>

\* Mutant: the error of proto.Unmarshal goes to errHandler, not to the log.
HandlerDecodeToSink ==
    /\ CurStep = "decode"
    /\ IF CurMsg.valid
       THEN /\ deliveries' = SetCur([CurDelivery EXCEPT !.decoded = "ok"])
            /\ cur' = [cur EXCEPT !.i = cur.i + 1]
            /\ UNCHANGED sink
       ELSE /\ deliveries' = SetCur([CurDelivery EXCEPT !.decoded = "fail",
                                                        !.err = ErrUnmarshal])
            /\ sink' = Append(sink, ErrUnmarshal)
            /\ cur' = [cur EXCEPT !.pc = "ret"]
    /\ UNCHANGED <<extVars, clientVars, histVars, last, disp, pubVars, brokerVars, decl, closed,
                   activeRet, brokerConsumers, loop, stored, pendingMsgs>>

\* proto.Unmarshal(natsMsg.Data(), &msg)
HandlerDecode ==
    /\ CurStep = "decode"
    /\ IF CurMsg.valid
       THEN /\ deliveries' = SetCur([CurDelivery EXCEPT !.decoded = "ok"])
            /\ cur' = [cur EXCEPT !.i = cur.i + 1]
       ELSE /\ deliveries' = SetCur([CurDelivery EXCEPT
                                !.decoded = "fail",
                                !.err = ErrUnmarshal,
                                !.logged = Append(CurDelivery.logged, LogDecodeFailed)])
            /\ cur' = [cur EXCEPT !.pc = "ret"]
    /\ UNCHANGED <<extVars, clientVars, histVars, last, disp, pubVars, brokerVars, decl, closed,
                   activeRet, brokerConsumers, loop, stored, pendingMsgs, sink>>

\* n.router.processStreamMessage(ctx, natsMsg.Subject(), &msg), run by the loop's
\* goroutine (dispatcher 1): the lookup, the call, and the test of the error.
HandlerDispatchLoad ==
    /\ CurStep = "dispatch"
    /\ disp[1].pc = "idle"
    /\ processStreamMessageLoad(1, CurMsg.subj, CurMsg.payload)

HandlerDispatchCall ==
    /\ CurStep = "dispatch"
    /\ processStreamMessageCall(1)

\* Mutant: a handler error is answered with a negative acknowledgment.
HandlerAfterDispatchNak ==
    /\ CurStep = "dispatch"
    /\ disp[1].pc = "done"
    /\ IF disp[1].ret = NilErr
       THEN /\ deliveries' = SetCur([CurDelivery EXCEPT
                                !.dispatched = TRUE,
                                !.expect = disp[1].expect,
                                !.calls = disp[1].calls])
            /\ cur' = [cur EXCEPT !.i = cur.i + 1]
       ELSE /\ deliveries' = SetCur([CurDelivery EXCEPT
                                !.dispatched = TRUE,
                                !.expect = disp[1].expect,
                                !.calls = disp[1].calls,
                                !.err = disp[1].ret,
                                !.atBroker = "unacked",
                                !.logged = Append(CurDelivery.logged, LogDispatchFailed)])
            /\ cur' = [cur EXCEPT !.pc = "ret"]
    /\ UNCHANGED <<extVars, clientVars, histVars, last, disp, pubVars, brokerVars, decl, closed,
                   activeRet, brokerConsumers, loop, stored, pendingMsgs, sink>>

HandlerAfterDispatch ==
    /\ CurStep = "dispatch"
    /\ disp[1].pc = "done"
    /\ IF disp[1].ret = NilErr
       THEN /\ deliveries' = SetCur([CurDelivery EXCEPT
                                !.dispatched = TRUE,
                                !.expect = disp[1].expect,
                                !.calls = disp[1].calls])
            /\ cur' = [cur EXCEPT !.i = cur.i + 1]
       ELSE /\ deliveries' = SetCur([CurDelivery EXCEPT
                                !.dispatched = TRUE,
                                !.expect = disp[1].expect,
                                !.calls = disp[1].calls,
                                !.err = disp[1].ret,
                                !.logged = Append(CurDelivery.logged, LogDispatchFailed)])
            /\ cur' = [cur EXCEPT !.pc = "ret"]
    /\ UNCHANGED <<extVars, clientVars, histVars, last, disp, pubVars, brokerVars, decl, closed,
                   activeRet, brokerConsumers, loop, stored, pendingMsgs, sink>>

\* The handler returns: after the last statement or after one of the early
\* returns.  A message the broker holds no ack for is delivered again.
\* Mutant: an early return of the handler stops the consume loop.
HandlerReturnStops ==
    /\ IF cur.pc = "run" THEN cur.i > Len(HandlerPlan) ELSE cur.pc = "ret"
    /\ deliveries' = IF cur.pc = "run"
                     THEN SetCur([CurDelivery EXCEPT
                                    !.logged = Append(CurDelivery.logged, LogProcessed)])
                     ELSE deliveries
    /\ pendingMsgs' = IF CurDelivery.atBroker = "unacked"
                      THEN Append(pendingMsgs, CurDelivery.id)
                      ELSE pendingMsgs
    /\ cur' = IdleHandler
    /\ loop' = IF cur.pc = "ret" THEN [loop EXCEPT !.state = "stopped"] ELSE loop
    /\ UNCHANGED <<extVars, clientVars, histVars, last, disp, pubVars, brokerVars, decl, closed,
                   activeRet, brokerConsumers, stored, sink>>

HandlerReturn ==
    /\ IF cur.pc = "run" THEN cur.i > Len(HandlerPlan) ELSE cur.pc = "ret"
    /\ deliveries' = IF cur.pc = "run"
                     THEN SetCur([CurDelivery EXCEPT
                                    !.logged = Append(CurDelivery.logged, LogProcessed)])
                     ELSE deliveries
    /\ pendingMsgs' = IF CurDelivery.atBroker = "unacked"
                      THEN Append(pendingMsgs, CurDelivery.id)
                      ELSE pendingMsgs
    /\ cur' = IdleHandler
    /\ UNCHANGED <<extVars, clientVars, histVars, last, disp, pubVars, brokerVars, decl, closed,
                   activeRet, brokerConsumers, loop, stored, sink>>

\* The library reports an error of the subscription: errHandler(consumeCtx, err).
ConsumeError ==
    /\ loop.state = "consuming"
    /\ Len(sink) < MaxSinkErrors
    /\ sink' = Append(sink, ErrNoHeartbeat)
    /\ UNCHANGED <<extVars, clientVars, histVars, last, disp, pubVars, brokerVars, decl, closed,
                   activeRet, brokerConsumers, loop, stored, pendingMsgs, deliveries, cur>>

\* The context the caller gave to ProcessStream and to ConsumerMessageHandler is
\* cancelled.  No statement of ProcessStream waits for it.
LoopCtxDone ==
    /\ loop.ctx = "live"
    /\ loop' = [loop EXCEPT !.ctx = "cancelled"]
    /\ UNCHANGED <<extVars, clientVars, histVars, last, disp, pubVars, brokerVars, decl, closed,
                   activeRet, brokerConsumers, stored, pendingMsgs, deliveries, cur, sink>>

\* One consumer of the subject orders.created, read while the service registers
\* its handler.  The service enables the stream context and creates the consumer
\* before it starts the loop.
NextConsume ==
    \/ loop.state = "idle" /\ JetStream
    \/ Handle("orders.created", "h1")
    \/ loop.state = "idle" /\ Consumer("c1")
    \/ ProcessStream("c1")
    \/ \E payload \in Msgs, valid \in BOOLEAN : BrokerStore("orders.created", payload, valid)
    \/ Deliver
    \/ HandlerAck
    \/ HandlerDecode
    \/ HandlerDispatchLoad
    \/ HandlerDispatchCall
    \/ HandlerAfterDispatch
    \/ HandlerReturn
    \/ ConsumeError

SpecConsume == Init /\ [][NextConsume]_vars


\* The consume loop of one consumer while the caller cancels the context, closes
\* the client and goes on registering handlers; the stream holds envelopes of this
\* package with one payload.
NextConsumeStop ==
    \/ loop.state = "idle" /\ JetStream
    \/ \E h \in Handlers : Handle("orders.created", h)
    \/ loop.state = "idle" /\ Consumer("c1")
    \/ ProcessStream("c1")
    \/ BrokerStore("orders.created", "m1", TRUE)
    \/ Deliver
    \/ HandlerAck
    \/ HandlerDecode
    \/ HandlerDispatchLoad
    \/ HandlerDispatchCall
    \/ HandlerAfterDispatch
    \/ HandlerReturn
    \/ LoopCtxDone
    \/ Close

SpecConsumeStop == Init /\ [][NextConsumeStop]_vars


(***************************************************************************)
(* The envelope: getMessageID, the Message built by the publish            *)
(* operations, proto.Marshal and proto.Unmarshal                           *)
(***************************************************************************)

PublishOps == {"PublishNats", "Request", "PublishSync", "PublishAsync"}

\* headers["messageID"]: no such key (or a nil map), or the value given.  BadUtf8
\* stands for a string that is not valid UTF-8.
BadUtf8 == "\\xff"
HeaderValues == {"absent", "", "hdr-1", BadUtf8}

\* ctx.Value(MessageIDKey): nil, a value that is no string, or a string.
CtxValues ==
    {NoCtxValue, [kind |-> "int", str |-> ""],
     [kind |-> "string", str |-> ""], [kind |-> "string", str |-> "ctx-1"]}

Payloads == {<<>>, <<104, 105>>, <<0>>}

\* time.Now() in nanoseconds since the epoch.
NanosPerSecond == 1000000000
NanosPerMilli == NanosPerSecond \div 1000
Times == {0 - 1, 0, 999999, NanosPerMilli, NanosPerSecond + 1500000, 2 * NanosPerSecond + 1}

\* uuid.NewString() and span.SpanContext().TraceID().String()
Uuids == {"uuid-1", "uuid-2"}
TraceIds == {"00000000000000000000000000000000", "4bf92f3577b34da6a3ce929d0e0e4736"}

\* getMessageID taking the context's value whenever it is a string, empty or not.
getMessageIDCtxUnchecked(ctxv, hdr, uuid) ==
    IF hdr \notin {"absent", ""} THEN hdr
    ELSE IF ctxv.kind # "string" THEN uuid
    ELSE ctxv.str

\* timestamppb.New keeping the seconds only.
TimestampNewSeconds(t) == [seconds |-> t \div NanosPerSecond, nanos |-> 0]

\* getMessageID(ctx, headers): the id before uuid.NewString() is needed; "" when
\* neither the headers nor the context give one.
getMessageIDGiven(ctxv, hdr) ==
    IF hdr \notin {"absent", ""} THEN hdr
    ELSE IF ctxv.kind # "string" THEN ""
    ELSE ctxv.str

getMessageID(ctxv, hdr, uuid) ==
    IF getMessageIDGiven(ctxv, hdr) = "" THEN uuid ELSE getMessageIDGiven(ctxv, hdr)

\* timestamppb.New(t): Seconds is t.Unix(), Nanos is t.Nanosecond()
TimestampNew(t) == [seconds |-> t \div NanosPerSecond, nanos |-> t % NanosPerSecond]

\* Timestamp.AsTime()
AsTime(ts) == ts.seconds * NanosPerSecond + ts.nanos

UnixMilli(t) == t \div NanosPerMilli

\* The Message a publish operation fills in.
MessageOf(op, ctxv, hdr, payload, now, uuid, traceId) ==
    [ts |-> TimestampNew(now),
     id |-> IF op \in {"PublishNats", "Request"} THEN getMessageID(ctxv, hdr, uuid) ELSE uuid,
     trace_id |-> traceId,
     payload |-> payload]

\* proto3 wire form: the fields in number order, a field with the zero value of
\* its type left out; ts is a nested message, present whenever the pointer is set.
Field(num, val, zero) == IF val = zero THEN <<>> ELSE <<[num |-> num, val |-> val]>>

MarshalTimestamp(ts) == Field(1, ts.seconds, 0) \o Field(2, ts.nanos, 0)

Marshal(m) ==
    <<[num |-> 1, val |-> MarshalTimestamp(m.ts)]>>
        \o Field(2, m.id, "") \o Field(3, m.trace_id, "") \o Field(4, m.payload, <<>>)

\* proto.Marshal fails on a string field that is not valid UTF-8.
ErrInvalidUTF8 == [text |-> <<"proto: field nats.v1.Message.id contains invalid UTF-8">>, is |-> {}]
MarshalErr(m) == IF m.id = BadUtf8 THEN ErrInvalidUTF8 ELSE NilErr

FieldVal(data, num, zero) ==
    IF \E i \in 1..Len(data) : data[i].num = num
    THEN data[CHOOSE i \in 1..Len(data) : data[i].num = num].val
    ELSE zero

UnmarshalTimestamp(data) == [seconds |-> FieldVal(data, 1, 0), nanos |-> FieldVal(data, 2, 0)]

Unmarshal(data) ==
    [ts |-> UnmarshalTimestamp(FieldVal(data, 1, <<>>)),
     id |-> FieldVal(data, 2, ""),
     trace_id |-> FieldVal(data, 3, ""),
     payload |-> FieldVal(data, 4, <<>>)]

\* A publish operation up to its proto.Marshal call.
BuildEnvelope ==
    /\ env.pc = "start"
    /\ IF env.op \in {"PublishSync", "PublishAsync"} /\ stream = Nil
       THEN env' = [env EXCEPT !.pc = "returned", !.err = ErrJetStreamNotEnabled]
       ELSE \E uuid \in Uuids, traceId \in TraceIds :
            LET m == MessageOf(env.op, env.ctxv, env.hdr, env.payload, env.now, uuid, traceId)
            IN  IF MarshalErr(m) # NilErr
                THEN env' = [env EXCEPT
                        !.pc = "returned", !.msg = m,
                        !.err = IF env.op \in {"PublishNats", "Request"}
                                THEN ErrorfW("marshal proto message", MarshalErr(m))
                                ELSE ErrorfV("marshal proto message", MarshalErr(m))]
                ELSE env' = [env EXCEPT !.pc = "marshalled", !.msg = m, !.data = Marshal(m)]
    /\ UNCHANGED <<adders, kafka, cache, clientVars, histVars, last, disp, pubVars, brokerVars, decl, loopVars>>

\* The receiver of the data: proto.Unmarshal into a Message.
DecodeEnvelope ==
    /\ env.pc = "marshalled"
    /\ env' = [env EXCEPT !.pc = "decoded", !.out = Unmarshal(env.data)]
    /\ UNCHANGED <<adders, kafka, cache, clientVars, histVars, last, disp, pubVars, brokerVars, decl, loopVars>>

EnvInputs ==
    [pc : {"start"}, op : PublishOps, hdr : HeaderValues, ctxv : CtxValues, payload : Payloads,
     now : Times, msg : {NoMessage}, data : {<<>>}, out : {NoMessage}, err : {NilErr}]

InitEnvelope ==
    /\ InitClient
    /\ env \in EnvInputs
    /\ adders = [a \in Adders |-> IdleAdder]
    /\ kafka = IdleKafka
    /\ cache = IdleCache

NextEnvelope ==
    \/ env.pc = "start" /\ JetStream
    \/ BuildEnvelope
    \/ DecodeEnvelope

SpecEnvelope == InitEnvelope /\ [][NextEnvelope]_vars


(***************************************************************************)
(* Nats.AddConsumer called by several goroutines at once.  The method      *)
(* takes no lock: `n.consumers = append(n.consumers, cons)` reads the      *)
(* slice, builds the longer one from what it read and stores it, and the   *)
(* steps of two calls interleave.  Of the outcomes of the data race the    *)
(* model has those in which every read and store of the slice is whole.    *)
(***************************************************************************)
\* lines 520-528 up to the read of n.consumers in the append
AddConsumerRead(a, cons) ==
    /\ adders[a].pc \in {"idle", "done"}
    /\ IF stream = Nil
       THEN /\ adders' = [adders EXCEPT ![a] = [pc |-> "done", cons |-> cons, seen |-> <<>>]]
            /\ last' = Returned("AddConsumer", Nil, ErrJetStreamNotEnabled, TRUE)
       ELSE /\ Len(added) + Cardinality({b \in Adders : adders[b].pc = "read"}) < MaxConsumers
            /\ adders' = [adders EXCEPT ![a] = [pc |-> "read", cons |-> cons, seen |-> consumers]]
            /\ UNCHANGED last
    /\ UNCHANGED <<env, kafka, cache, clientVars, histVars, disp, pubVars, brokerVars, decl, loopVars>>

\* line 528: the store of the appended slice, and the return
AddConsumerWrite(a) ==
    /\ adders[a].pc = "read"
    /\ consumers' = Append(adders[a].seen, adders[a].cons)
    /\ added' = Append(added, adders[a].cons)
    /\ adders' = [adders EXCEPT ![a].pc = "done"]
    /\ last' = Returned("AddConsumer", Nil, NilErr, FALSE)
    /\ UNCHANGED <<env, kafka, cache, stream, router, routes, created, registered, replaced,
                   disp, pubVars, brokerVars, decl, loopVars>>

NextAddRace ==
    \/ JetStream
    \/ \E a \in Adders, cons \in ConsumerIds : AddConsumerRead(a, cons)
    \/ \E a \in Adders : AddConsumerWrite(a)
    \/ ActiveConsumers

SpecAddRace == Init /\ [][NextAddRace]_vars


(***************************************************************************)
(* New with its options.  Init is the client as New builds it before the   *)
(* options run (conn set, everything else zero); New connects, applies     *)
(* the options and returns.                                                *)
(***************************************************************************)
ErrConnect == [text |-> <<"nats: no servers available for connection">>, is |-> {"nats.ErrNoServers"}]

\* The name New is recorded under in `last`, by the options given.
NewOp(withJetStream) == IF withJetStream THEN "New(WithJetStream)" ELSE "New"

\* New has not returned yet.
NewPending == last = Returned("New", Nil, NilErr, FALSE)

\* New gave its caller a client.
HasClient == ~NewPending /\ ~(last.op \in {NewOp(TRUE), NewOp(FALSE)} /\ last.err # NilErr)

\* The value New returns for a client: the identity of the one client of the model.
TheClient == 1

\* WithJetStream's option: n.JetStream() with both results dropped.
WithJetStream(newOk) == JetStreamResult(newOk)

New(withJetStream) ==
    /\ NewPending
    /\ \E connOk \in BOOLEAN, newOk \in BOOLEAN :
        IF ~connOk
        THEN /\ last' = Returned(NewOp(withJetStream), Nil,
                                 ErrorfW("connect to nats", ErrConnect), FALSE)
             /\ UNCHANGED <<stream, router, routes, created>>
        ELSE /\ last' = Returned(NewOp(withJetStream), TheClient, NilErr, FALSE)
             /\ IF withJetStream
                THEN LET r == WithJetStream(newOk) IN
                     /\ stream' = r.stream
                     /\ router' = r.router
                     /\ routes' = r.routes
                     /\ created' = r.created
                ELSE UNCHANGED <<stream, router, routes, created>>
    /\ UNCHANGED <<extVars, consumers, histVars, disp, pubVars, brokerVars, decl, loopVars>>

NextNew ==
    \/ \E withJetStream \in BOOLEAN : New(withJetStream)
    \/ HasClient /\ JetStream
    \/ HasClient /\ \E h \in Handlers : Handle("orders.created", h)
    \/ HasClient /\ \E cons \in ConsumerIds : AddConsumer(cons)
    \/ HasClient /\ ActiveConsumers
    \/ HasClient /\ PublishSyncCall("live")
    \/ HasClient /\ BrokerAck
    \/ HasClient /\ PublishSyncReturn

SpecNew == Init /\ [][NextNew]_vars


(***************************************************************************)
(* Kafka Consumer.Subscribe and its consume goroutines.  out and errCh are *)
(* unbuffered: a send completes when a receiver takes the value, and the   *)
(* only receiver is the caller of a Subscribe that returned the channels.  *)
(***************************************************************************)
ErrGetPartitions == [text |-> <<"failed to get partitions">>, is |-> {"ErrGetPartitions"}]
ErrConsumePartition == [text |-> <<"error consuming partition">>, is |-> {"ErrConsumePartition"}]
ErrClosePartitionConsumer ==
    [text |-> <<"partition consumer wasn't properly closed">>, is |-> {"ErrClosePartitionConsumer"}]
ErrSarama == [text |-> <<"kafka: broker not available">>, is |-> {"sarama.ErrOutOfBrokers"}]

\* errors.Join(a, b)
ErrorsJoin(a, b) == [text |-> a.text \o b.text, is |-> a.is \cup b.is]

\* lines 68-79: Partitions(topic) and the two channels
SubscribeCall ==
    /\ kafka.pc = "idle"
    /\ \E listed \in BOOLEAN, n \in Partitions :
        IF ~listed
        THEN kafka' = [kafka EXCEPT !.pc = "failed",
                                    !.ret = ErrorsJoin(ErrGetPartitions, ErrSarama)]
        ELSE kafka' = [kafka EXCEPT !.pc = "opening", !.n = n, !.i = 1]
    /\ UNCHANGED <<env, adders, cache, clientVars, histVars, last, disp, pubVars, brokerVars,
                   decl, loopVars>>

\* lines 81-92: one turn of the loop over the partitions, and the return after
\* the last one
SubscribeOpenPartition ==
    /\ kafka.pc = "opening"
    /\ ~kafka.crashed
    /\ \E opened \in BOOLEAN :
        IF ~opened
        THEN kafka' = [kafka EXCEPT
                        !.pc = "failed", !.outClosed = TRUE, !.errClosed = TRUE,
                        !.ret = ErrorfW("partition", ErrorsJoin(ErrConsumePartition, ErrSarama))]
        ELSE kafka' = [kafka EXCEPT
                        !.worker[kafka.i] = "select",
                        !.i = kafka.i + 1,
                        !.pc = IF kafka.i = kafka.n THEN "subscribed" ELSE "opening"]
    /\ UNCHANGED <<env, adders, cache, clientVars, histVars, last, disp, pubVars, brokerVars,
                   decl, loopVars>>

\* The caller cancels the context given to Subscribe.
KafkaCtxDone ==
    /\ kafka.pc # "idle"
    /\ ~kafka.crashed
    /\ kafka.ctx = "live"
    /\ kafka' = [kafka EXCEPT !.ctx = "cancelled"]
    /\ UNCHANGED <<env, adders, cache, clientVars, histVars, last, disp, pubVars, brokerVars,
                   decl, loopVars>>

\* consume, line 103: the select takes a message of the partition
ConsumeMessage(p) ==
    /\ kafka.worker[p] = "select"
    /\ ~kafka.crashed
    /\ kafka' = [kafka EXCEPT !.worker[p] = "sendOut"]
    /\ UNCHANGED <<env, adders, cache, clientVars, histVars, last, disp, pubVars, brokerVars,
                   decl, loopVars>>

\* consume, lines 98-102: the select takes ctx.Done() and closes the partition consumer
ConsumeCtxDone(p) ==
    /\ kafka.worker[p] = "select"
    /\ ~kafka.crashed
    /\ kafka.ctx # "live"
    /\ \E closedOk \in BOOLEAN :
        kafka' = [kafka EXCEPT !.worker[p] = IF closedOk THEN "returned" ELSE "sendErr"]
    /\ UNCHANGED <<env, adders, cache, clientVars, histVars, last, disp, pubVars, brokerVars,
                   decl, loopVars>>

\* A send on a channel: it panics when the channel is closed, also when it was
\* closed while the sender waited, and the panic of a goroutine ends the process;
\* it completes when the receiver takes the value.
SendOutcome(chClosed) ==
    IF chClosed THEN "panicked"
    ELSE IF kafka.pc = "subscribed" THEN "sent"
    ELSE "blocked"

\* consume, line 104: out <- message
ConsumeSendOut(p) ==
    /\ kafka.worker[p] = "sendOut"
    /\ ~kafka.crashed
    /\ IF SendOutcome(kafka.outClosed) = "sent"
       THEN /\ Len(kafka.received) < MaxReceived
            /\ kafka' = [kafka EXCEPT !.worker[p] = "select",
                                      !.received = Append(kafka.received, p)]
       ELSE /\ SendOutcome(kafka.outClosed) = "panicked"
            /\ kafka' = [kafka EXCEPT !.worker[p] = "panicked", !.crashed = TRUE]
    /\ UNCHANGED <<env, adders, cache, clientVars, histVars, last, disp, pubVars, brokerVars,
                   decl, loopVars>>

\* consume, line 100: err <- errors.Join(ErrClosePartitionConsumer, e)
ConsumeSendErr(p) ==
    /\ kafka.worker[p] = "sendErr"
    /\ ~kafka.crashed
    /\ IF SendOutcome(kafka.errClosed) = "sent"
       THEN kafka' = [kafka EXCEPT !.worker[p] = "returned", !.errs = kafka.errs \cup {p}]
       ELSE /\ SendOutcome(kafka.errClosed) = "panicked"
            /\ kafka' = [kafka EXCEPT !.worker[p] = "panicked", !.crashed = TRUE]
    /\ UNCHANGED <<env, adders, cache, clientVars, histVars, last, disp, pubVars, brokerVars,
                   decl, loopVars>>

NextKafka ==
    \/ SubscribeCall
    \/ SubscribeOpenPartition
    \/ KafkaCtxDone
    \/ \E p \in Partitions : ConsumeMessage(p)
    \/ \E p \in Partitions : ConsumeCtxDone(p)
    \/ \E p \in Partitions : ConsumeSendOut(p)
    \/ \E p \in Partitions : ConsumeSendErr(p)

SpecKafka == Init /\ [][NextKafka]_vars


(***************************************************************************)
(* The Redis cache wrapper: SetPrimitive, the typed getters and Del.  The  *)
(* repository holds two snapshots of it: redis.go wraps the command's      *)
(* error with errors.Wrap of pkg/errors, the later one (in prom.go) with   *)
(* fmt.Errorf and %w.                                                      *)
(***************************************************************************)
Getters == {"GetString", "GetInt", "GetInt64", "GetFloat", "GetBool", "GetBytes"}
Snapshots == {"redis.go", "prom.go"}

RedisNil == [text |-> <<"redis: nil">>, is |-> {"redis.Nil"}]
ErrRedisConn == [text |-> <<"dial tcp: connection refused">>, is |-> {"net.OpError"}]
ErrParse == [text |-> <<"strconv: invalid syntax">>, is |-> {"strconv.ErrSyntax"}]
ErrNotFound == [text |-> <<"key not found">>, is |-> {"ErrNotFound"}]

\* What each getter calls its failure.
GetterDesc(op) ==
    CASE op = "GetString" -> "failed to get string"
      [] op = "GetInt" -> "failed to get int"
      [] op = "GetInt64" -> "failed to get int64"
      [] op = "GetFloat" -> "failed to get float64"
      [] op = "GetBool" -> "failed to get bool"
      [] op = "GetBytes" -> "failed to get bytes"

\* Result(), Int(), Int64(), Float64(), Bool(), Bytes() of a reply: whether the
\* stored text converts to the getter's type.
Converts(op, v) ==
    CASE op \in {"GetString", "GetBytes"} -> TRUE
      [] op \in {"GetInt", "GetInt64", "GetFloat"} -> v = "42"
      [] op = "GetBool" -> v = "true"

\* The error of r.rc.Get(ctx, k) followed by the conversion.
GetErr(v, reached, op) ==
    IF ~reached THEN ErrRedisConn
    ELSE IF v = Missing THEN RedisNil
    ELSE IF ~Converts(op, v) THEN ErrParse
    ELSE NilErr

\* The error of r.rc.Del(ctx, k): DEL answers with the number of keys removed,
\* 0 for a key that does not exist, and no error.
DelErr(reached) == IF reached THEN NilErr ELSE ErrRedisConn

\* errors.Wrap(err, desc) of pkg/errors: nil for a nil err
Wrap(err, desc) == IF err = NilErr THEN NilErr ELSE ErrorfW(desc, err)

\* fmt.Errorf("<desc>: %w", err): an error also for a nil err
Errorf(desc, err) ==
    IF err = NilErr THEN [text |-> <<desc, "%!w(<nil>)">>, is |-> {}] ELSE ErrorfW(desc, err)

\* What a getter or Del returns for the error of its command.
CacheResult(snapshot, desc, err) ==
    IF "redis.Nil" \in err.is THEN ErrNotFound
    ELSE IF snapshot = "redis.go" THEN Wrap(err, desc)
    ELSE Errorf(desc, err)

SetPrimitive(k, v) ==
    /\ \E reached \in BOOLEAN :
        cache' = [cache EXCEPT
                    !.store = IF reached THEN [cache.store EXCEPT ![k] = v] ELSE cache.store,
                    !.op = "SetPrimitive", !.key = k, !.had = cache.store[k],
                    !.cmdErr = IF reached THEN NilErr ELSE ErrRedisConn,
                    !.parsed = TRUE,
                    !.ret = Wrap(IF reached THEN NilErr ELSE ErrRedisConn,
                                 "failed to set primitive")]
    /\ UNCHANGED <<env, adders, kafka, clientVars, histVars, last, disp, pubVars, brokerVars,
                   decl, loopVars>>

Get(snapshot, op, k) ==
    /\ \E reached \in BOOLEAN :
        cache' = [cache EXCEPT
                    !.snapshot = snapshot, !.op = op, !.key = k, !.had = cache.store[k],
                    !.cmdErr = IF ~reached THEN ErrRedisConn
                               ELSE IF cache.store[k] = Missing THEN RedisNil ELSE NilErr,
                    !.parsed = Converts(op, cache.store[k]),
                    !.ret = CacheResult(snapshot, GetterDesc(op),
                                        GetErr(cache.store[k], reached, op))]
    /\ UNCHANGED <<env, adders, kafka, clientVars, histVars, last, disp, pubVars, brokerVars,
                   decl, loopVars>>

Del(snapshot, k) ==
    /\ \E reached \in BOOLEAN :
        cache' = [cache EXCEPT
                    !.store = IF reached THEN [cache.store EXCEPT ![k] = Missing]
                              ELSE cache.store,
                    !.snapshot = snapshot, !.op = "Del", !.key = k, !.had = cache.store[k],
                    !.cmdErr = DelErr(reached),
                    !.parsed = TRUE,
                    !.ret = CacheResult(snapshot, "failed to delete key", DelErr(reached))]
    /\ UNCHANGED <<env, adders, kafka, clientVars, histVars, last, disp, pubVars, brokerVars,
                   decl, loopVars>>

NextCache ==
    \/ \E k \in CacheKeys, v \in CacheValues : SetPrimitive(k, v)
    \/ \E snapshot \in Snapshots, op \in Getters, k \in CacheKeys : Get(snapshot, op, k)
    \/ \E snapshot \in Snapshots, k \in CacheKeys : Del(snapshot, k)

SpecCache == Init /\ [][NextCache]_vars


(***************************************************************************)
(* Properties                                                              *)
(***************************************************************************)
NoDuplicates(seq) == \A i, j \in 1..Len(seq) : seq[i] = seq[j] => i = j

\* C1: a dispatch for a subject that has a handler registered through Handle (at the
\* time of the lookup) calls that handler exactly once, with the dispatched message,
\* and calls no other handler; before the call step nothing has been called.
C1_DispatchCallsRegisteredOnce ==
    \A d \in Dispatchers :
        /\ disp[d].pc = "loaded" => disp[d].calls = <<>> /\ disp[d].expect # NoHandler
        /\ (disp[d].pc = "done" /\ disp[d].expect # NoHandler) =>
                /\ disp[d].calls = <<[h |-> disp[d].expect, msg |-> disp[d].msg]>>
                /\ ~disp[d].panic

C1_Witness ==
    \E d \in Dispatchers :
        /\ disp[d].pc = "done"
        /\ disp[d].subj = "orders.paid"
        /\ disp[d].expect = "h2"
        /\ disp[d].calls = <<[h |-> "h2", msg |-> "m2"]>>
        /\ registered["orders.created"] = "h1"

\* C2: on an existing router, a dispatch for a subject with no registered handler
\* returns nil, calls no handler, and leaves the route table and the consumer registry
\* as they were.
C2_UnroutedDispatchIsSilent ==
    [][\A d \in Dispatchers, subj \in RouteSubjects, m \in Msgs :
          (router # Nil /\ registered[subj] = NoHandler
             /\ processStreamMessageLoad(d, subj, m)) =>
                /\ disp'[d].pc = "done"
                /\ disp'[d].ret = NilErr
                /\ ~disp'[d].panic
                /\ disp'[d].calls = <<>>
                /\ routes' = routes
                /\ consumers' = consumers]_vars

C2_Witness ==
    \E d \in Dispatchers :
        /\ router # Nil
        /\ disp[d].pc = "done"
        /\ disp[d].subj = "orders.paid"
        /\ ~disp[d].panic
        /\ disp[d].calls = <<>>
        /\ disp[d].ret = NilErr
        /\ registered["orders.paid"] = NoHandler
        /\ routes["orders.created"] = "h1"
        /\ consumers # <<>>

\* C3: the route table holds, for every subject, exactly the handler of the latest
\* Handle call for that subject, and no entry for a subject never registered.
C3_LastRegistrationWins ==
    \A subj \in RouteSubjects : routes[subj] = registered[subj]

C3_Witness ==
    /\ "orders.created" \in replaced
    /\ routes["orders.created"] = "h2"
    /\ routes["orders.paid"] = "h1"
    /\ "orders.paid" \notin replaced

\* C4: every create-or-update request of Stream(cfg) carries the name cfg.Name and a
\* duplicate-free subject list whose elements are exactly those of cfg.Subjects and
\* of the stream of that name found by the listing.
C4_StreamRequestIsUnion ==
    lastReq.issued =>
        /\ NoDuplicates(lastReq.subjects)
        /\ Range(lastReq.subjects) = lastReq.cfgSubjects \cup lastReq.seen

C4_Witness ==
    /\ lastReq.issued
    /\ lastReq.name = "X"
    /\ lastReq.cfgSubjects = {"a", "b"}
    /\ lastReq.seen = {"a", "c"}
    /\ Range(lastReq.subjects) = {"a", "b", "c"}
    /\ brokerSubjects["X"] = {"a", "b", "c"}

\* C5: whatever the interleaving of the callers' listings and create-or-updates, an
\* existing stream keeps every subject it has.
C5_StreamNeverNarrowed ==
    [][\A n \in StreamNames :
          n \in brokerExists =>
              n \in brokerExists' /\ brokerSubjects[n] \subseteq brokerSubjects'[n]]_vars

\* C6: once the client is enabled its stream context and router are never replaced and
\* no second context is created; a JetStream call on an enabled client returns that
\* context and leaves routes and consumers alone; a JetStream call that fails leaves
\* stream and router unset.
C6_JetStreamIdempotent ==
    [][/\ stream # Nil => stream' = stream /\ router' = router /\ created' = created
       /\ (JetStream /\ stream # Nil) =>
              /\ last'.ctx = stream
              /\ last'.err = NilErr
              /\ routes' = routes
              /\ consumers' = consumers
       /\ (JetStream /\ stream = Nil /\ last'.err # NilErr) =>
              stream' = Nil /\ router' = Nil]_vars

C6_Witness ==
    /\ last.op = "JetStream"
    /\ last.err = NilErr
    /\ last.ctx = stream
    /\ routes["orders.created"] = "h1"
    /\ Len(consumers) = 2

\* C7: a PublishAsync with waitForAck that waits in the select can return as soon as
\* its context is done, and when it returns with the context done and no
\* acknowledgment arrived its result is ErrAckTimeout itself.
C7_CancelledWaitReturnsAckTimeout ==
    /\ (pub.pc = "asyncWait" /\ ctx # "live") => ENABLED PublishAsyncReturn
    /\ (pub.pc = "done" /\ pub.kind = "async" /\ pub.waited
          /\ pub.verdictAtReturn # "ack") =>
            pub.ret = ErrAckTimeout

C7_Witness ==
    /\ pub.pc = "done"
    /\ pub.kind = "async"
    /\ pub.withAck
    /\ pub.waited
    /\ pub.verdictAtReturn = "pending"
    /\ ctx = "expired"
    /\ pub.ret = ErrAckTimeout

\* C8: a PublishAsync with waitForAck whose publish the broker rejected before the
\* call returned reports a publish error, never ErrAckTimeout (and never success).
C8_RejectionIsNotAckTimeout ==
    (pub.pc = "done" /\ pub.kind = "async" /\ pub.withAck
       /\ pub.verdictAtReturn = "reject") =>
         pub.ret # ErrAckTimeout /\ pub.ret # NilErr

\* C9: the error PublishSync returns when its context is done before the broker
\* answered differs, in its message, from every error it returns for a publish the
\* broker rejected.
C9_SyncCancelDiffersFromRejection ==
    (pub.pc = "done" /\ pub.kind = "sync" /\ pub.cause = "ctx") =>
        /\ pub.ret # NilErr
        /\ \A r \in BrokerRejections : pub.ret.text # PublishSyncResult(r).text

C9_Witness ==
    /\ pub.pc = "done"
    /\ pub.kind = "sync"
    /\ pub.cause = "ctx"
    /\ pub.verdictAtReturn = "pending"
    /\ pub.ret.text = <<"error publishing to stream", "context deadline exceeded">>

\* C10: on a client that was never enabled, PublishSync and PublishAsync return
\* ErrJetStreamNotEnabled at once: no envelope is marshalled, nothing is sent, no
\* answer of the broker is awaited, and the client is as it was.
C10_PublishNeedsJetStream ==
    [][\A c0 \in CtxStates, withAck \in BOOLEAN :
          (stream = Nil /\ (PublishSyncCall(c0) \/ PublishAsyncCall(c0, withAck))) =>
              /\ pub'.pc = "done"
              /\ pub'.ret = ErrJetStreamNotEnabled
              /\ encoded' = encoded
              /\ sent' = sent
              /\ verdict' = verdict
              /\ UNCHANGED <<stream, router, routes, consumers, created>>]_vars

C10_Witness ==
    /\ stream = Nil
    /\ pub.pc = "done"
    /\ pub.kind = "async"
    /\ pub.withAck
    /\ pub.ret = ErrJetStreamNotEnabled
    /\ encoded = 0
    /\ sent = 0
    /\ last.op = "JetStream"


\* C11: on a client whose stream context was never created, Handle, AddConsumer and
\* ActiveConsumers panic with ErrJetStreamNotEnabled, and the call leaves the route
\* table, the consumer registry and the list handed out earlier as they were.
C11_NotEnabledCallsPanic ==
    [][(/\ stream = Nil
        /\ \/ \E subj \in RouteSubjects, h \in Handlers : Handle(subj, h)
           \/ \E cons \in ConsumerIds : AddConsumer(cons)
           \/ ActiveConsumers)
       => /\ last'.panic
          /\ last'.err = ErrJetStreamNotEnabled
          /\ last'.op \in {"Handle", "AddConsumer", "ActiveConsumers"}
          /\ UNCHANGED <<routes, registered, consumers, added, activeRet>>]_vars

\* ActiveConsumers has panicked on a client that never had a stream context.
C11_Witness ==
    /\ created = 0
    /\ stream = Nil
    /\ last = Returned("ActiveConsumers", Nil, ErrJetStreamNotEnabled, TRUE)
    /\ routes = NoRoutes
    /\ consumers = <<>>


\* The deliveries the handler has returned from.
Completed == IF cur.pc = "idle" THEN 1..Len(deliveries) ELSE 1..(Len(deliveries) - 1)

\* C12: for every delivered message the handler acknowledges, then decodes, then
\* dispatches: the envelope is not decoded before the acknowledgment succeeded, and
\* the router is not entered (no lookup, no handler call) before both succeeded.
C12_AckThenDecodeThenDispatch ==
    /\ \A k \in 1..Len(deliveries) :
        /\ deliveries[k].decoded # "none" => deliveries[k].ack = "ok"
        /\ (deliveries[k].dispatched \/ deliveries[k].calls # <<>>)
            => deliveries[k].ack = "ok" /\ deliveries[k].decoded = "ok"
    /\ (cur.pc # "idle" /\ disp[1].pc # "idle")
        => CurDelivery.ack = "ok" /\ CurDelivery.decoded = "ok"

\* The handler of orders.created is running for a delivered message.
C12_Witness ==
    /\ cur.pc = "run"
    /\ disp[1].pc = "done"
    /\ disp[1].calls = <<[h |-> "h1", msg |-> CurMsg.payload]>>
    /\ CurDelivery.ack = "ok"


\* The delivery ended in a decode failure or in an error of the handler.
FailedInHandler(d) == d.decoded = "fail" \/ (d.dispatched /\ d.err # NilErr)

HandlerStep ==
    \/ HandlerAck
    \/ HandlerDecode
    \/ HandlerDispatchLoad
    \/ HandlerDispatchCall
    \/ HandlerAfterDispatch
    \/ HandlerReturn

\* C13: a decode failure or a handler error does not end the consume loop: the
\* loop stays in Consuming, the handler always has a next step up to its return,
\* and every delivery the handler returned from, whatever happened to the ones
\* before it, was acknowledged, decoded when the acknowledgment succeeded, and
\* dispatched (its handler called once) when the envelope decoded.
C13_FailureDoesNotStopLoop ==
    /\ (deliveries # <<>> /\ ~closed) => loop.state = "consuming"
    /\ cur.pc # "idle" => ENABLED HandlerStep
    /\ \A k \in Completed :
        LET d == deliveries[k] IN
        /\ d.ack # "none"
        /\ d.ack = "ok" => d.decoded # "none"
        /\ (d.ack = "ok" /\ d.decoded = "ok")
            => /\ d.dispatched
               /\ d.expect # NoHandler
                    => d.calls = <<[h |-> d.expect, msg |-> stored[d.id].payload]>>

\* A delivery failed in the handler and a later message went through its handler.
C13_Witness ==
    \E k, j \in Completed :
        /\ k < j
        /\ FailedInHandler(deliveries[k])
        /\ deliveries[j].id # deliveries[k].id
        /\ deliveries[j].calls # <<>>
        /\ deliveries[j].err = NilErr
        /\ LogProcessed \in {deliveries[j].logged[i] : i \in 1..Len(deliveries[j].logged)}


RECURSIVE ObservedUpTo(_)
ObservedUpTo(k) ==
    IF k = 0 THEN <<>>
    ELSE ObservedUpTo(k - 1)
         \o [i \in 1..Len(deliveries[k].calls) |-> deliveries[k].calls[i].msg]

\* The delivery was acknowledged, carried an envelope of this package, and found a
\* handler registered for its subject.
Handled(d) == d.ack = "ok" /\ stored[d.id].valid /\ d.expect # NoHandler

\* The payloads of the deliveries among the first k that are Handled, in delivery order.
RECURSIVE HandledUpTo(_)
HandledUpTo(k) ==
    IF k = 0 THEN <<>>
    ELSE IF Handled(deliveries[k])
         THEN Append(HandledUpTo(k - 1), stored[deliveries[k].id].payload)
         ELSE HandledUpTo(k - 1)

LastCompleted == IF cur.pc = "idle" THEN Len(deliveries) ELSE Len(deliveries) - 1

C18_DispatchedAtMostOnce ==
    /\ \A k, j \in 1..Len(deliveries) :
        (deliveries[k].id = deliveries[j].id /\ deliveries[k].dispatched
            /\ deliveries[j].dispatched) => k = j
    /\ \A k \in 1..Len(deliveries) :
        LET d == deliveries[k] IN
        /\ Len(d.calls) <= 1
        /\ (d.dispatched /\ d.err # NilErr)
            => /\ d.atBroker = "acked"
               /\ \A i \in 1..Len(pendingMsgs) : pendingMsgs[i] # d.id
               /\ \A j \in (k + 1)..Len(deliveries) : deliveries[j].id # d.id

\* The handler returned an error for a message, the loop went on to a later
\* message, and nothing is left to deliver.
C18_Witness ==
    /\ cur.pc = "idle"
    /\ pendingMsgs = <<>>
    /\ \E k, j \in Completed :
        /\ k < j
        /\ deliveries[k].calls # <<>>
        /\ deliveries[k].err # NilErr
        /\ deliveries[j].dispatched


\* C16, as claimed: once the context given to the consume loop is cancelled, no
\* further message is pulled from the consumer (the loop is Stopped).
C16_CancelStopsLoop ==
    [][loop.ctx = "cancelled" => Len(deliveries') = Len(deliveries)]_vars

C19_DispatchSafeUnderRegistration ==
    [][\A d \in Dispatchers :
        /\ (disp[d].pc # "loaded" /\ disp'[d].pc = "loaded")
            => /\ disp'[d].h \in Handlers
               /\ disp'[d].h = registered[disp'[d].subj]
        /\ (disp[d].pc # "loaded" /\ disp'[d] # disp[d] /\ disp'[d].pc = "done")
            => /\ registered[disp'[d].subj] = NoHandler
               /\ disp'[d].calls = <<>>
        /\ disp[d].pc = "loaded"
            => \/ disp'[d] = disp[d]
               \/ /\ disp'[d].pc = "done"
                  /\ disp'[d].calls = <<[h |-> disp[d].h, msg |-> disp[d].msg]>>]_vars

\* Two dispatches for one subject with a Handle call for it in between: one has
\* called the first handler, the lookup of the other found the second.
C19_Witness ==
    /\ disp[1].subj = disp[2].subj
    /\ disp[1].pc = "done"
    /\ disp[1].calls = <<[h |-> "h1", msg |-> disp[1].msg]>>
    /\ disp[2].pc = "loaded"
    /\ disp[2].h = "h2"
    /\ routes[disp[1].subj] = "h2"


\* C20: the registry of active consumers only grows at its end: every step of the
\* client keeps the entries it had, in place; only AddConsumer on an enabled client
\* changes it, by its argument appended; so it always holds the arguments of the
\* AddConsumer calls in call order, and that is what ActiveConsumers returns.
C20_RegistryAppendOnly ==
    [][/\ Len(consumers') >= Len(consumers)
       /\ SubSeq(consumers', 1, Len(consumers)) = consumers
       /\ consumers' = added'
       /\ consumers' # consumers
            => \E cons \in ConsumerIds :
                /\ stream # Nil
                /\ AddConsumer(cons)
                /\ consumers' = Append(consumers, cons)
       /\ (stream # Nil /\ ActiveConsumers) => activeRet' = added]_vars

\* ActiveConsumers returned the two consumers in the order they were added, on a
\* client that has also published, declared a stream, started a consume loop and
\* been closed.
C20_Witness ==
    /\ last = Returned("ActiveConsumers", Nil, NilErr, FALSE)
    /\ activeRet = <<"c2", "c1">>
    /\ added = <<"c2", "c1">>
    /\ routes["orders.created"] = "h1"
    /\ pub.pc = "done"
    /\ pub.ret = NilErr
    /\ lastReq.issued
    /\ loop.state = "stopped"
    /\ closed


\* C21: a dispatch that called a handler returns a non-nil error exactly when the
\* handler returned one, and the error returned carries the handler's error:
\* errors.Is finds every sentinel the handler's error answers to, and the message
\* is the context followed by the handler's message.
C21_DispatchErrorWrapsHandlerError ==
    \A d \in Dispatchers :
        (disp[d].pc = "done" /\ disp[d].calls # <<>>)
            => /\ disp[d].ret # NilErr <=> disp[d].herr # NilErr
               /\ disp[d].herr # NilErr
                    => /\ disp[d].herr.is \subseteq disp[d].ret.is
                       /\ disp[d].ret.text
                            = <<"handler returned an error">> \o disp[d].herr.text


\* C22: the id of every envelope a publish operation builds is non-empty, whatever
\* the headers and the context hold.  PublishNats and Request take
\* headers["messageID"] when it is non-empty, otherwise the context's message id
\* when it is a non-empty string, otherwise a generated id; PublishSync and
\* PublishAsync always take a generated id.
C22_EnvelopeIdNeverEmpty ==
    env.pc \in {"marshalled", "decoded"} \/ (env.pc = "returned" /\ env.msg # NoMessage)
        => /\ env.msg.id # ""
           /\ env.op \in {"PublishNats", "Request"}
                => /\ env.hdr \notin {"absent", ""} => env.msg.id = env.hdr
                   /\ (env.hdr \in {"absent", ""} /\ env.ctxv.kind = "string"
                        /\ env.ctxv.str # "")
                        => env.msg.id = env.ctxv.str
                   /\ (env.hdr \in {"absent", ""}
                        /\ (env.ctxv.kind # "string" \/ env.ctxv.str = ""))
                        => env.msg.id \in Uuids
           /\ env.op \in {"PublishSync", "PublishAsync"} => env.msg.id \in Uuids

\* Request built an envelope with a generated id from an empty messageID header and
\* a context whose message id is an empty string.
C22_Witness ==
    /\ env.pc = "marshalled"
    /\ env.op = "Request"
    /\ env.hdr = ""
    /\ env.ctxv = [kind |-> "string", str |-> ""]
    /\ env.msg.id \in Uuids

\* C23: decoding an encoded envelope gives the payload, the id and the trace id
\* that were encoded, and a timestamp that is the creation time to the millisecond.
C23_EnvelopeRoundTrip ==
    env.pc = "decoded"
        => /\ env.data = Marshal(env.msg)
           /\ env.out.payload = env.msg.payload
           /\ env.out.payload = env.payload
           /\ env.out.id = env.msg.id
           /\ env.out.trace_id = env.msg.trace_id
           /\ UnixMilli(AsTime(env.out.ts)) = UnixMilli(env.now)

\* An envelope created 1.0015 s after the epoch with a payload of two bytes was
\* decoded: its timestamp has the second and the 1.5 ms.
C23_Witness ==
    /\ env.pc = "decoded"
    /\ env.now = NanosPerSecond + 1500000
    /\ env.payload = <<104, 105>>
    /\ env.out.ts = [seconds |-> 1, nanos |-> 1500000]
    /\ env.out.id = "hdr-1"


\* C24: a PublishAsync with waitForAck that is waiting returns once the broker has
\* answered, by an ack or by a rejection, without the caller's context being
\* cancelled: whenever the answer is there, the call's return is the next thing the
\* call can do, whatever the state of the context.
C24_AnsweredWaitReturns ==
    (pub.pc = "asyncWait" /\ verdict \in {"ack", "reject"}) => ENABLED PublishAsyncReturn


Occurrences(seq, x) == Cardinality({i \in 1..Len(seq) : seq[i] = x})

\* C25: AddConsumer calls of several goroutines lose no registration: once no call
\* is in progress, the registry holds every consumer the returned calls added, as
\* often as it was added, and that is what ActiveConsumers returns.
C25_ConcurrentAddLosesNothing ==
    (\A a \in Adders : adders[a].pc # "read")
        => /\ Len(consumers) = Len(added)
           /\ \A c \in ConsumerIds : Occurrences(consumers, c) = Occurrences(added, c)


\* C26: when New(cfg, WithJetStream()) has returned a client and a nil error,
\* durable messaging is enabled on that client: its stream context and its router
\* are set.
C26_NewWithJetStreamEnables ==
    (last.op = NewOp(TRUE) /\ last.err = NilErr /\ last.ctx = TheClient)
        => /\ stream # Nil
           /\ router # Nil


\* C27: a delivery whose DoubleAck failed is dropped there: its envelope is not
\* decoded, the router is not entered and no handler is called for it, only the
\* acknowledgment failure is logged; the handler is called only for deliveries
\* whose acknowledgment succeeded; and the failure does not end the loop: the
\* handler returns and the loop keeps consuming.
C27_AckFailureDropsMessage ==
    /\ \A k \in 1..Len(deliveries) :
        LET d == deliveries[k] IN
        /\ d.ack = "fail"
            => /\ d.decoded = "none"
               /\ ~d.dispatched
               /\ d.calls = <<>>
               /\ d.logged = <<LogAckFailed>>
               /\ d.err # NilErr
        /\ d.calls # <<>> => d.ack = "ok"
    /\ (cur.pc # "idle" /\ CurDelivery.ack = "fail")
        => /\ cur.pc = "ret"
           /\ disp[1].pc = "idle"
           /\ ENABLED HandlerReturn
    /\ ((\E k \in 1..Len(deliveries) : deliveries[k].ack = "fail") /\ ~closed)
        => loop.state = "consuming"

\* The acknowledgment of one delivery failed and the handler of orders.created was
\* then called for a later delivery.
C27_Witness ==
    \E k, j \in Completed :
        /\ k < j
        /\ deliveries[k].ack = "fail"
        /\ deliveries[k].calls = <<>>
        /\ deliveries[j].ack = "ok"
        /\ deliveries[j].calls = <<[h |-> "h1", msg |-> stored[deliveries[j].id].payload]>>


\* C28: a Stream call whose listing of the existing streams failed returns an
\* error that says so, and issues no create-or-update call: the step in which the
\* listing fails ends the call and leaves the broker's streams and the requests
\* it received as they were.
C28_ListFailureIssuesNoRequest ==
    [][\A t \in Declarers :
        decl'[t].listErr # NilErr
            => /\ decl'[t].pc = "done"
               /\ decl'[t].ret = ErrorfV("list existing streams", decl'[t].listErr)
               /\ decl'[t] # decl[t]
                    => /\ decl[t].pc # "listed"
                       /\ UNCHANGED brokerVars]_vars

\* A Stream call failed in its listing after an earlier call had created the
\* stream X: X is as that call left it.
C28_Witness ==
    /\ decl[1].pc = "done"
    /\ decl[1].listErr = ErrList
    /\ decl[1].ret = ErrorfV("list existing streams", ErrList)
    /\ lastReq.issued
    /\ lastReq.name = "X"
    /\ brokerSubjects["X"] = Range(lastReq.subjects)


\* C29: no consume goroutine ever sends on a closed channel, also when Subscribe
\* fails to open a later partition and closes the out and the error channel.
C29_NoSendOnClosedChannel ==
    \A p \in Partitions : kafka.worker[p] # "panicked"


\* C30: every getter of the cache and Del return a nil error when the command
\* succeeded, ErrNotFound when the key did not exist, and an error wrapping the
\* command's error only when the command (or, for a getter, the conversion of
\* its reply) failed.
C30_CacheErrorsTellOutcome ==
    cache.op \in Getters \cup {"Del"}
        => /\ (cache.cmdErr = NilErr /\ cache.had # Missing /\ cache.parsed)
                => cache.ret = NilErr
           /\ (cache.had = Missing /\ cache.cmdErr \in {NilErr, RedisNil})
                => cache.ret = ErrNotFound
           /\ cache.ret \notin {NilErr, ErrNotFound}
                => \/ /\ cache.cmdErr \notin {NilErr, RedisNil}
                      /\ cache.cmdErr.is \subseteq cache.ret.is
                   \/ /\ cache.cmdErr = NilErr
                      /\ ~cache.parsed

====
